---------------------------- MODULE Spec2Model ----------------------------
(***************************************************************************)
(* A model of the invoice synchronization engine: the orchestrator of      *)
(* src/src/sync_engine.py, the Centralizer of src/src/centralization.py,   *)
(* the Integrity Checker of src/src/integrity.py and the Dispatcher of     *)
(* src/src/dispatch.py, over the tables {schema}.XIMPAYE_CONSO.            *)
(*                                                                         *)
(* A table is a set of rows.  A row carries the columns the engine reads   *)
(* or writes (NUM_0, DOSSIER_0, MNTGLB_0, MNTREG_0, SYNC_DATE) and ROWID,  *)
(* the database's identity of the physical row: two rows that agree on     *)
(* every column are still two rows, so a table is a multiset of column     *)
(* tuples.  ROWID is the instant of the INSERT that created the row in the *)
(* CRM; a target's copy keeps the ROWID of the CRM row it was copied from. *)
(*                                                                         *)
(* The database driver, the database's DDL and the source views are not    *)
(* code of the repository.  They are the environment: a source view holds  *)
(* any rows with distinct NUM_0, any database call may raise, and the      *)
(* tables either carry the primary key (NUM_0, DOSSIER_0) or do not        *)
(* (pkEnforced, chosen once).                                              *)
(***************************************************************************)
EXTENDS Integers, FiniteSets, Sequences, TLC

\* ------------------------------------------------------------------ bounds

\* How many of the configured schemas take part (each is a source and a target).
NumSchemas == 2
\* How many distinct invoice numbers a source view can report.
MaxNum == 1
\* The largest MNTGLB_0 a source reports; 0 <= MNTREG_0 <= MNTGLB_0.
MaxAmount == 2
\* How many cycles the engine runs.
MaxCycles == 3
\* How many rows the CRM table can hold (without the primary key it grows at
\* every cycle).
MaxRows == 2

\* The seconds of one inter-cycle sleep (SYNC_INTERVAL_MINUTES * 60 in the
\* source, half a minute here).
sleep_time == 30

\* How many records a worker publishes for its step during one fan-out
\* (IN_PROGRESS, then the outcome).
MaxPublish == 2

\* --------------------------------------------------------------- constants

\* config.py: MAX_RETRIES, the per-stage retry budget (default).
MAX_RETRIES == 3

\* config.py: DB_CONFIG_1["schemas"] followed by DB_CONFIG_2["schemas"].
SchemaList == <<"CAS", "CMGP", "PHILEA">>

\* get_target_schemas / the targets list of orchestrate_sync.
get_target_schemas ==
    {SchemaList[i] : i \in 1..(IF NumSchemas < Len(SchemaList) THEN NumSchemas ELSE Len(SchemaList))}

Schemas == get_target_schemas

Nums == 1..MaxNum

\* ------------------------------------------------------------------- rows

\* The (NUM_0, DOSSIER_0) pair of a row.
KeyOf(r) == <<r.NUM_0, r.DOSSIER_0>>

Keys(t) == {KeyOf(r) : r \in t}

\* The columns of a row, without the physical row identity.
Cols(r) == [NUM_0 |-> r.NUM_0, DOSSIER_0 |-> r.DOSSIER_0, MNTGLB_0 |-> r.MNTGLB_0,
            MNTREG_0 |-> r.MNTREG_0, SYNC_DATE |-> r.SYNC_DATE]

\* A row of a view XIMPAYE as the SELECT of line 19 reads it: the view has a
\* DOSSIER_0 of its own, with any value.  Every invoice owes MaxAmount.
ViewRows ==
    {r \in [NUM_0 : Nums, DOSSIER_0 : Schemas, MNTGLB_0 : {MaxAmount}, MNTREG_0 : 0..MaxAmount] :
        r.MNTREG_0 <= r.MNTGLB_0}

\* A variant that keeps the DOSSIER_0 of the view.
keep_dossier(row, schema) == row

\* Lines 29-32: the DOSSIER_0 of the view is dropped and the column is set to
\* the schema the row was read from.
set_dossier(row, schema) == [row EXCEPT !.DOSSIER_0 = schema]

\* A row of the view {schema}.XIMPAYE as extract_schema_data returns it.
ExtractedRows(schema) == {set_dossier(row, schema) : row \in ViewRows}

\* What one extraction of a schema can return: any set of rows with distinct
\* NUM_0 (the empty frame too, which is also what a failed extraction returns).
extract_schema_data(schema) ==
    {df \in SUBSET ExtractedRows(schema) :
        \A r1, r2 \in df : r1.NUM_0 = r2.NUM_0 => r1 = r2}

\* -------------------------------------------------------- database access

\* What a database call can do besides succeed: the SELECTs, the INSERT batch
\* or the UPDATE batch of an operation raises.
Faults == {"none", "select", "insert", "update"}

\* The INSERT of rows is rejected by a table that carries the primary key.
PkViolated(pk, table, rows) ==
    /\ pk
    /\ \/ \E r \in rows : KeyOf(r) \in Keys(table)
       \/ \E r1, r2 \in rows : r1 # r2 /\ KeyOf(r1) = KeyOf(r2)

\* A variant in which the rows of a batch that raised stay in the table.
commit_attempted(table, attempted) == attempted

\* execute_batch raises before conn.commit(): get_connection closes the
\* connection in its finally clause, and the rows the batch had written,
\* `attempted`, are rolled back.
rollback(table, attempted) == table

\* execute_batch of an INSERT statement, committed.
InsertBatch(table, rows) == table \cup rows

\* UPDATE ... SET MNTREG_0 = :1, SYNC_DATE = :2 WHERE NUM_0 = :3 AND DOSSIER_0 = :4
\* touches every row of the key.  When a batch holds several updates of one key
\* the last one executed stays; f names it for each key.
ApplyUpdates(table, f) ==
    {IF KeyOf(r) \in DOMAIN f
        THEN [r EXCEPT !.MNTREG_0 = f[KeyOf(r)].MNTREG_0, !.SYNC_DATE = f[KeyOf(r)].SYNC_DATE]
        ELSE r : r \in table}

\* execute_batch of the UPDATE statement, committed: the tables it can leave
\* (one per order of the batch, which follows the unordered SELECT it came from).
UpdateBatch(table, update_data) ==
    {ApplyUpdates(table, f) :
        f \in {g \in [{u.key : u \in update_data} -> update_data] :
                  \A k \in DOMAIN g : g[k].key = k}}

\* ------------------------------------------------------------ Centralizer

\* source_df["SYNC_DATE"] = now_date; the row as it is inserted.
Stamp(r, now_date) ==
    [NUM_0 |-> r.NUM_0, DOSSIER_0 |-> r.DOSSIER_0, MNTGLB_0 |-> r.MNTGLB_0,
     MNTREG_0 |-> r.MNTREG_0, SYNC_DATE |-> now_date, ROWID |-> now_date]

\* get_active_crm_invoices: WHERE MNTREG_0 < MNTGLB_0.
get_active_crm_invoices(table) == {r \in table : r.MNTREG_0 < r.MNTGLB_0}

\* The index label of a row of source_df.  Line 59 calls set_index with
\* inplace=False and drops the result, so source_df keeps the RangeIndex that
\* pd.concat(ignore_index=True) gave it: the label is the row's position.
SourceLabel(r) == <<"position", r>>

\* The index label of a row of crm_index (line 60): its (NUM_0, DOSSIER_0).
CrmLabel(r) == <<"key", KeyOf(r)>>

\* source_keys = set(source_dict.keys()), crm_keys = set(crm_index.index).
source_keys(source_df) == {SourceLabel(r) : r \in source_df}

crm_keys(active_crm_df) == {CrmLabel(r) : r \in active_crm_df}

\* source_dict[k]
SourceAt(source_df, k) == CHOOSE r \in source_df : SourceLabel(r) = k

\* crm_index.loc[k]: the rows under label k.
CrmLoc(active_crm_df, k) == {r \in active_crm_df : CrmLabel(r) = k}

\* crm_index.loc[k, col] is a Series, not a scalar, when two active rows share
\* the label; `src_mntreg > Series` in an `if` and float(Series) both raise.
LocRaises(active_crm_df) ==
    \E k \in crm_keys(active_crm_df) : Cardinality(CrmLoc(active_crm_df, k)) > 1

\* 1. new_keys = source_keys - crm_keys: the rows to INSERT.
insert_data(source_df, active_crm_df, now_date) ==
    {Stamp(SourceAt(source_df, k), now_date) :
        k \in source_keys(source_df) \ crm_keys(active_crm_df)}

\* 2. common_keys: UPDATE where the source amount is strictly greater.
partial_updates(source_df, active_crm_df, now_date) ==
    {[MNTREG_0 |-> SourceAt(source_df, k).MNTREG_0, SYNC_DATE |-> now_date, key |-> k[2]] :
        k \in {c \in source_keys(source_df) \cap crm_keys(active_crm_df) :
                 \A r \in CrmLoc(active_crm_df, c) :
                     SourceAt(source_df, c).MNTREG_0 > r.MNTREG_0}}

\* 3. disappeared_keys = crm_keys - source_keys: UPDATE MNTREG_0 := MNTGLB_0.
settle_updates(source_df, active_crm_df, now_date) ==
    {[MNTREG_0 |-> (CHOOSE r \in CrmLoc(active_crm_df, k) : TRUE).MNTGLB_0,
      SYNC_DATE |-> now_date, key |-> k[2]] :
        k \in crm_keys(active_crm_df) \ source_keys(source_df)}

update_data(source_df, active_crm_df, now_date) ==
    partial_updates(source_df, active_crm_df, now_date) \cup
    settle_updates(source_df, active_crm_df, now_date)

\* Delta mode (lines 54-111): what one call can leave in the table, with the
\* status it publishes for centralisation/CRM_GLOBAL.  The INSERT batch is
\* committed before the UPDATE batch starts; an exception anywhere is caught at
\* line 113 and published as FAILURE.
centralize_delta(source_df, table, now_date, pk, fault) ==
    LET active_crm_df == get_active_crm_invoices(table)
        ins == insert_data(source_df, active_crm_df, now_date)
        upd == update_data(source_df, active_crm_df, now_date)
        inserted == IF ins = {} THEN table ELSE InsertBatch(table, ins)
    IN  IF LocRaises(active_crm_df)
        THEN {[table |-> table, status |-> "FAILURE"]}
        ELSE IF ins # {} /\ (fault = "insert" \/ PkViolated(pk, table, ins))
        THEN {[table |-> rollback(table, InsertBatch(table, ins)), status |-> "FAILURE"]}
        ELSE IF upd = {}
        THEN {[table |-> inserted, status |-> "SUCCESS"]}
        ELSE IF fault = "update"
        THEN {[table |-> rollback(inserted, t), status |-> "FAILURE"] :
                 t \in UpdateBatch(inserted, upd)}
        ELSE {[table |-> t, status |-> "SUCCESS"] : t \in UpdateBatch(inserted, upd)}

\* Initial load (lines 40-52): the CRM table is empty, every row is inserted.
centralize_initial(source_df, table, now_date, pk, fault) ==
    LET ins == {Stamp(r, now_date) : r \in source_df}
    IN  IF fault = "insert" \/ PkViolated(pk, table, ins)
        THEN {[table |-> rollback(table, InsertBatch(table, ins)), status |-> "FAILURE"]}
        ELSE {[table |-> InsertBatch(table, ins), status |-> "SUCCESS"]}

\* is_initial_load: COUNT(*) = 0.
is_initial_load(table) == table = {}

\* process_centralization(source_df) on the CRM table `table`.  It never raises.
process_centralization(source_df, table, now_date, pk, fault) ==
    IF source_df = {}
    THEN {[table |-> table, status |-> "SUCCESS"]}
    ELSE IF fault = "select"
    THEN {[table |-> table, status |-> "FAILURE"]}
    ELSE IF is_initial_load(table)
    THEN centralize_initial(source_df, table, now_date, pk, fault)
    ELSE centralize_delta(source_df, table, now_date, pk, fault)

\* ------------------------------------------------------------- Dispatcher

\* A SYNC_DATE that is NULL.  The engine stamps every row it writes, so only
\* a row that was in a table before the engine has it.
NullDate == 0

\* SELECT MAX(SYNC_DATE) of a non-empty table: NULLs are left out, and the
\* result is NULL when every row has a NULL.
MaxSyncDate(table) ==
    CHOOSE d \in {r.SYNC_DATE : r \in table} : \A r \in table : r.SYNC_DATE <= d

\* min(max_dates), for a non-empty max_dates.
min_of(dates) ==
    CHOOSE d \in {dates[s] : s \in DOMAIN dates} : \A s \in DOMAIN dates : d <= dates[s]

\* A variant of the delta query with an inclusive comparison.
select_delta_inclusive(table, watermark) == {r \in table : r.SYNC_DATE >= watermark}

\* SELECT * FROM CRM WHERE SYNC_DATE > :1
select_delta(table, watermark) == {r \in table : r.SYNC_DATE > watermark}

\* dispatch_initial(schema) on the target table `local`: the whole CRM is read
\* and inserted.  Any exception is caught and published as FAILURE.
dispatch_initial(df_crm, local, pk, fault) ==
    IF fault = "select"
    THEN [table |-> local, status |-> "FAILURE"]
    ELSE IF df_crm = {}
    THEN [table |-> local, status |-> "SUCCESS"]
    ELSE IF fault = "insert" \/ PkViolated(pk, local, df_crm)
    THEN [table |-> rollback(local, InsertBatch(local, df_crm)), status |-> "FAILURE"]
    ELSE [table |-> InsertBatch(local, df_crm), status |-> "SUCCESS"]

\* dispatch_delta(schema, delta_df) on the target table `local` (lines 59-89):
\* a delta row whose key is in the target is an UPDATE of MNTREG_0 and
\* SYNC_DATE, any other a full INSERT; the INSERT batch is committed before
\* the UPDATE batch starts.
dispatch_delta(delta, local, pk, fault) ==
    LET local_keys == Keys(local)
        ins == {r \in delta : KeyOf(r) \notin local_keys}
        upd == {[MNTREG_0 |-> r.MNTREG_0, SYNC_DATE |-> r.SYNC_DATE, key |-> KeyOf(r)] :
                   r \in {d \in delta : KeyOf(d) \in local_keys}}
        inserted == IF ins = {} THEN local ELSE InsertBatch(local, ins)
    IN  IF delta = {}
        THEN {[table |-> local, status |-> "SUCCESS"]}
        ELSE IF fault = "select"
        THEN {[table |-> local, status |-> "FAILURE"]}
        ELSE IF ins # {} /\ (fault = "insert" \/ PkViolated(pk, local, ins))
        THEN {[table |-> rollback(local, InsertBatch(local, ins)), status |-> "FAILURE"]}
        ELSE IF upd = {}
        THEN {[table |-> inserted, status |-> "SUCCESS"]}
        ELSE IF fault = "update"
        THEN {[table |-> rollback(inserted, t), status |-> "FAILURE"] :
                 t \in UpdateBatch(inserted, upd)}
        ELSE {[table |-> t, status |-> "SUCCESS"] : t \in UpdateBatch(inserted, upd)}

\* ------------------------------------------------------------------ state

VARIABLES
    pkEnforced,        \* the XIMPAYE_CONSO tables carry the primary key (NUM_0, DOSSIER_0)
    crm,               \* CRM.XIMPAYE_CONSO
    tgt,               \* {schema}.XIMPAYE_CONSO of every target schema
    clock,             \* datetime.now() of the running cycle; the number of cycles started
    pc,                \* where the engine is: sleep, extract, centralize, integrity, dispatch, tasks,
                       \* exited
    status,            \* the "status" of the monitoring artifact
    alerts,            \* the types of the alerts in its "alerts" list
    extraction,        \* the status published for extraction/{schema}
    centralisation,    \* the status published for centralisation/CRM_GLOBAL
    integrity,         \* the status published for centralisation/INTEGRITY_{dossier}
    future,            \* the extraction future of every schema: none, running, done
    results,           \* orchestrate_sync: the rows of the frames collected so far
    attempts,          \* run_extraction_with_retries: the calls of extract_schema_data made
    retries,           \* orchestrate_sync: the retry counter of the dispatch loop
    initial_schemas,   \* run_dispatching: the targets found empty
    delta_schemas,     \* run_dispatching: the targets found non-empty
    max_dates,         \* run_dispatching: the MAX(SYNC_DATE) read from each of them
    delta_df,          \* run_dispatching: the delta handed to every delta task
    task,              \* the dispatch future of every target: none, queued, done
    dispatching,       \* the status published for dispatching/{schema}
    file,              \* the monitoring artifact on disk, at the grain of file operations
    wdata,             \* update_monitoring in the worker of a schema: its local `data`
    wpc,               \* ... and where it is: idle, loaded, opened
    wrecords,          \* the records the worker of a schema has published
    hdata,             \* set_global_status in handle_sigterm: its local `data`
    hpc,               \* ... and where it is: none, loaded, opened, done
    dashboard,         \* what load_monitoring_data of the dashboard last read
    engine,            \* start_engine: where its loop is
    engine_status,     \* ... the global status the engine published last
    force_run_file,    \* ... whether FORCE_RUN_FILE exists
    second,            \* ... the seconds slept in the sleep loop of lines 181-185
    pending_request    \* history: FORCE_RUN_FILE was written while a cycle was
                       \* running, and no sleep has been cut short since

dbVars == <<pkEnforced, crm, tgt>>

extractVars == <<future, results, attempts>>

monVars == <<alerts, extraction, centralisation, integrity>>

sinkVars == <<file, wdata, wpc, wrecords, hdata, hpc, dashboard>>

loopVars == <<engine, engine_status, force_run_file, second, pending_request>>

dispatchVars == <<retries, initial_schemas, delta_schemas, max_dates, delta_df, task, dispatching>>

vars == <<pkEnforced, crm, tgt, clock, pc, status, alerts, extraction, centralisation,
          integrity, future, results, attempts,
          retries, initial_schemas, delta_schemas, max_dates, delta_df, task, dispatching,
          file, wdata, wpc, wrecords, hdata, hpc, dashboard,
          engine, engine_status, force_run_file, second, pending_request>>

\* The monitoring artifact as a file: `text` is "empty" between the
\* open(MONITORING_FILE, 'w') of a writer, which truncates, and its json.dump;
\* otherwise it is "json" and `keys` are the top-level keys among status,
\* last_run and alerts that the document has (a value whose key is missing
\* is kept at "", 0 or {}).  `extraction` is, for each schema, the number of
\* the last record stored under extraction/{schema} (0: none).
NoRecords == [s \in Schemas |-> 0]

EmptyFile ==
    [text |-> "empty", keys |-> {}, status |-> "", last_run |-> 0, alerts |-> {},
     extraction |-> NoRecords]

\* init_monitoring, then set_global_status("RUNNING", now) and clear_alerts()
\* at the start of the first cycle: the artifact when the workers start.
init_monitoring ==
    [text |-> "json", keys |-> {"status", "last_run", "alerts"}, status |-> "RUNNING",
     last_run |-> 1, alerts |-> {}, extraction |-> NoRecords]

\* update_monitoring, from its read to the document it is about to write:
\* json.load of a file another writer has truncated raises, and the except
\* clause continues with a document that has neither status nor last_run.
update_monitoring_data(f, schema, record) ==
    LET data == IF f.text = "empty"
                THEN [EmptyFile EXCEPT !.text = "json", !.keys = {"alerts"}]
                ELSE [f EXCEPT !.keys = @ \cup {"alerts"}]
    IN  [data EXCEPT !.extraction[schema] = record]

\* set_global_status(status) without last_run, from its read to the document
\* it is about to write: after a failed read the document is {} and ends up
\* with the status alone.
set_global_status_data(f, new_status) ==
    LET data == IF f.text = "empty" THEN [EmptyFile EXCEPT !.text = "json"] ELSE f
    IN  [data EXCEPT !.keys = @ \cup {"status"}, !.status = new_status]

\* No writer is inside the sink.
SinkInit ==
    /\ file = init_monitoring
    /\ wdata = [s \in Schemas |-> EmptyFile]
    /\ wpc = [s \in Schemas |-> "idle"]
    /\ wrecords = [s \in Schemas |-> 0]
    /\ hdata = EmptyFile
    /\ hpc = "none"
    /\ dashboard = init_monitoring

\* start_engine up to its loop (lines 159-163): the status IDLE is published
\* and the first cycle is about to be called; the force-run file may exist.
LoopInit ==
    /\ engine = "loop"
    /\ engine_status = "IDLE"
    /\ force_run_file = FALSE
    /\ second = 0
    /\ pending_request = FALSE

\* start_engine up to its loop, on target tables that hold `tables`: the CRM
\* table is empty, the status is IDLE.
InitWith(tables) ==
    /\ pkEnforced \in BOOLEAN
    /\ crm = {}
    /\ tgt = tables
    /\ clock = 0
    /\ pc = "sleep"
    /\ status = "IDLE"
    /\ alerts = {}
    /\ extraction = [s \in Schemas |-> "NONE"]
    /\ centralisation = "NONE"
    /\ integrity = [s \in Schemas |-> "NONE"]
    /\ future = [s \in Schemas |-> "none"]
    /\ results = {}
    /\ attempts = [s \in Schemas |-> 0]
    /\ retries = 0
    /\ initial_schemas = {}
    /\ delta_schemas = {}
    /\ max_dates = <<>>
    /\ delta_df = {}
    /\ task = [s \in Schemas |-> "none"]
    /\ dispatching = [s \in Schemas |-> "NONE"]
    /\ SinkInit
    /\ LoopInit

\* ... on empty target tables.
Init == InitWith([s \in Schemas |-> {}])

\* ----------------------------------------------------------- Orchestrator

\* start_engine's loop calls orchestrate_sync: status RUNNING, the alerts are
\* cleared, and one extraction future per schema is submitted (lines 62-79);
\* the pool has a thread for each, which publishes IN_PROGRESS (line 34).
StartCycleUpTo(cycles) ==
    /\ pc = "sleep"
    /\ clock < cycles
    /\ clock' = clock + 1
    /\ status' = "RUNNING"
    /\ alerts' = {}
    /\ extraction' = [s \in Schemas |-> "IN_PROGRESS"]
    /\ pc' = "extract"
    /\ future' = [s \in Schemas |-> "running"]
    /\ results' = {}
    /\ attempts' = [s \in Schemas |-> 0]
    /\ UNCHANGED <<sinkVars, loopVars, dbVars, centralisation, integrity, dispatchVars>>

\* ... in an engine that is observed for MaxCycles cycles.
StartCycle == StartCycleUpTo(MaxCycles)

\* run_extraction_with_retries(schema) in its worker.  extract_schema_data
\* returns the frame of the view and publishes SUCCESS, or, when the driver
\* raised, catches the exception, publishes FAILURE and returns the empty
\* frame (extraction.py, lines 46-56).  The wrapper returns what it got at its
\* first attempt with success = True (line 36 is always true; lines 44-55 are
\* never reached), and the as_completed loop appends the frame to results
\* when it has rows (lines 81-86).
run_extraction_with_retries(schema, raised) ==
    /\ pc = "extract"
    /\ future[schema] = "running"
    /\ attempts' = [attempts EXCEPT ![schema] = @ + 1]
    /\ IF raised
       THEN /\ extraction' = [extraction EXCEPT ![schema] = "FAILURE"]
            /\ results' = results
       ELSE /\ extraction' = [extraction EXCEPT ![schema] = "SUCCESS"]
            /\ \E df \in extract_schema_data(schema) : results' = results \cup df
    /\ future' = [future EXCEPT ![schema] = "done"]
    /\ UNCHANGED <<sinkVars, loopVars, dbVars, clock, pc, status, alerts, centralisation, integrity,
                   dispatchVars>>

\* A variant of ExtractionsFinished that does not wait for every worker: the
\* block is left as soon as one future is done.
ExtractionsFinishedEarly == \E s \in Schemas : future[s] = "done"

\* The `with ThreadPoolExecutor` block of lines 75-86 is left when every
\* future is done.
ExtractionsFinished == \A s \in Schemas : future[s] = "done"

\* A variant of extraction_success_count that counts the workers that are
\* done, with or without rows.
extraction_done_count == Cardinality({s \in Schemas : future[s] = "done"})

\* extraction_success_count (lines 84-86): the frames with rows; every row
\* of a frame carries the schema of the frame.
extraction_success_count == Cardinality({r.DOSSIER_0 : r \in results})

\* Line 98: global_df = pd.concat(results).
global_df == results

\* The locals of orchestrate_sync, of its workers and of run_dispatching are
\* gone.
ForgetLocals ==
    /\ future' = [s \in Schemas |-> "none"]
    /\ results' = {}
    /\ attempts' = [s \in Schemas |-> 0]
    /\ retries' = 0
    /\ initial_schemas' = {}
    /\ delta_schemas' = {}
    /\ max_dates' = <<>>
    /\ delta_df' = {}
    /\ task' = [s \in Schemas |-> "none"]

\* The end of a call of orchestrate_sync: start_engine sleeps.
Return ==
    /\ pc' = "sleep"
    /\ ForgetLocals

\* Lines 88-93: no frame with rows, the cycle ends with the alert
\* CRITICAL_FAIL and status ERROR.
AllExtractionsFailed ==
    /\ pc = "extract"
    /\ ExtractionsFinished
    /\ extraction_success_count = 0
    /\ alerts' = alerts \cup {"CRITICAL_FAIL"}
    /\ status' = "ERROR"
    /\ Return
    /\ UNCHANGED <<sinkVars, loopVars, dbVars, clock, extraction, centralisation, integrity, dispatching>>

\* Lines 95-98: some frame has rows, the cycle goes on to the Centralizer,
\* with the alert WARNING when fewer frames have rows than there are schemas.
ConcatResults ==
    /\ pc = "extract"
    /\ ExtractionsFinished
    /\ extraction_success_count > 0
    /\ alerts' = IF extraction_success_count < Cardinality(Schemas)
                 THEN alerts \cup {"WARNING"}
                 ELSE alerts
    /\ pc' = "centralize"
    /\ UNCHANGED <<sinkVars, loopVars, dbVars, clock, status, extraction, centralisation, integrity,
                   extractVars, dispatchVars>>

\* Lines 102-116: process_centralization(global_df) returns normally whatever
\* happened in it, so the loop runs once and centralization_ok is True.
CentralizeWithin(fault, rows) ==
    /\ pc = "centralize"
    /\ \E out \in process_centralization(global_df, crm, clock, pkEnforced, fault) :
          /\ Cardinality(out.table) <= rows
          /\ crm' = out.table
          /\ centralisation' = out.status
    /\ pc' = "integrity"
    /\ UNCHANGED <<sinkVars, loopVars, pkEnforced, tgt, clock, status, alerts, extraction, integrity,
                   extractVars, dispatchVars>>

\* ... on a CRM table that holds MaxRows rows.
Centralize(fault) == CentralizeWithin(fault, MaxRows)

\* source_counts of verify_integrity: the dossiers of the frame.
source_dossiers(source_df) == {r.DOSSIER_0 : r \in source_df}

\* verify_integrity, lines 21-39: the record it publishes for a dossier, from
\* the rows of the frame and the rows of the CRM table that carry it.
integrity_record(source_df, table, dossier) ==
    IF Cardinality({r \in table : r.DOSSIER_0 = dossier})
           = Cardinality({r \in source_df : r.DOSSIER_0 = dossier})
    THEN "SUCCESS"
    ELSE "FAILURE"

\* verify_integrity(source_df) on the CRM table: its return value.
verify_integrity(source_df, table) ==
    \A dossier \in source_dossiers(source_df) :
        integrity_record(source_df, table, dossier) = "SUCCESS"

\* A variant in which a mismatch blocks the cycle: the records are published,
\* and when verify_integrity returns false the cycle ends with status ERROR.
IntegrityBlocking ==
    /\ pc = "integrity"
    /\ integrity' = [s \in Schemas |->
                       IF s \in source_dossiers(global_df)
                       THEN integrity_record(global_df, crm, s)
                       ELSE integrity[s]]
    /\ IF verify_integrity(global_df, crm)
       THEN /\ pc' = "dispatch"
            /\ results' = {}
            /\ UNCHANGED <<status, future, attempts, dispatchVars>>
       ELSE /\ status' = "ERROR"
            /\ pc' = "sleep"
            /\ future' = [s \in Schemas |-> "none"]
            /\ results' = {}
            /\ attempts' = [s \in Schemas |-> 0]
            /\ UNCHANGED dispatchVars
    /\ UNCHANGED <<sinkVars, loopVars, dbVars, clock, alerts, extraction, centralisation>>

\* Line 127: verify_integrity(global_df) publishes a record for every dossier
\* of the frame and returns; its value is not read, and global_df is not read
\* after it.
Integrity ==
    /\ pc = "integrity"
    /\ integrity' = [s \in Schemas |->
                       IF s \in source_dossiers(global_df)
                       THEN integrity_record(global_df, crm, s)
                       ELSE integrity[s]]
    /\ pc' = "dispatch"
    /\ results' = {}
    /\ UNCHANGED <<sinkVars, loopVars, dbVars, clock, status, alerts, extraction, centralisation,
                   future, attempts, dispatchVars>>

\* A scalar query of verify_integrity raises, after the records of the
\* dossiers in `checked` were published: the exception leaves
\* orchestrate_sync, and start_engine adds the alert CRITICAL and sets status
\* ERROR (lines 167-170).
IntegrityRaises(checked) ==
    /\ pc = "integrity"
    /\ checked # source_dossiers(global_df)
    /\ integrity' = [s \in Schemas |->
                       IF s \in checked
                       THEN integrity_record(global_df, crm, s)
                       ELSE integrity[s]]
    /\ alerts' = alerts \cup {"CRITICAL"}
    /\ status' = "ERROR"
    /\ Return
    /\ UNCHANGED <<sinkVars, loopVars, dbVars, clock, extraction, centralisation, dispatching>>

\* min_of_max_dates, line 130.
min_of_max_dates == min_of(max_dates)

\* Lines 115-122: a target is a delta target when its table has rows and
\* `if max_date:` passes, that is when its MAX(SYNC_DATE) is not NULL.
has_max_date(table) == table # {} /\ MaxSyncDate(table) # NullDate

\* run_dispatching, lines 103-148: every target is classified (one that
\* cannot be read is published as FAILURE and left out; one whose table has
\* rows but no MAX(SYNC_DATE) is left out without a record), the delta is
\* selected once, and one task per classified target is submitted.
RunDispatching(unreadable) ==
    /\ pc = "dispatch"
    /\ LET init_set == {s \in Schemas \ unreadable : tgt[s] = {}}
           delta_set == {s \in Schemas \ unreadable : has_max_date(tgt[s])}
           dates == [s \in delta_set |-> MaxSyncDate(tgt[s])]
       IN  /\ initial_schemas' = init_set
           /\ delta_schemas' = delta_set
           /\ max_dates' = dates
           /\ delta_df' = IF delta_set = {} THEN {} ELSE select_delta(crm, min_of(dates))
           /\ task' = [s \in Schemas |->
                         IF s \in init_set \cup delta_set THEN "queued" ELSE "none"]
           /\ dispatching' = [s \in Schemas |->
                         IF s \in unreadable THEN "FAILURE" ELSE dispatching[s]]
    /\ pc' = "tasks"
    /\ UNCHANGED <<sinkVars, loopVars, dbVars, clock, status, monVars, extractVars, retries>>

\* A variant whose loop allows one attempt more.
RunDispatchingRaisesOnceMore ==
    /\ pc = "dispatch"
    /\ \E s \in Schemas : has_max_date(tgt[s])
    /\ retries <= MAX_RETRIES
    /\ retries' = retries + 1
    /\ UNCHANGED <<sinkVars, loopVars, dbVars, clock, pc, status, monVars, extractVars, initial_schemas,
                   delta_schemas, max_dates, delta_df, task, dispatching>>

\* The SELECT of the delta raises (line 136): run_dispatching raises, and the
\* loop of lines 133-145 counts a retry, sleeps RETRY_DELAY_SECONDS since an
\* attempt remains (lines 144-145), and calls it again.
RunDispatchingRaises ==
    /\ pc = "dispatch"
    /\ \E s \in Schemas : has_max_date(tgt[s])
    /\ retries + 1 <= MAX_RETRIES
    /\ retries' = retries + 1
    /\ UNCHANGED <<sinkVars, loopVars, dbVars, clock, pc, status, monVars, extractVars, initial_schemas,
                   delta_schemas, max_dates, delta_df, task, dispatching>>

\* It raises at the last attempt: the cycle ends with the alert DISPATCH_FAIL
\* and status ERROR (lines 147-152).
DispatchFail ==
    /\ pc = "dispatch"
    /\ \E s \in Schemas : has_max_date(tgt[s])
    /\ retries + 1 > MAX_RETRIES
    /\ alerts' = alerts \cup {"DISPATCH_FAIL"}
    /\ status' = "ERROR"
    /\ Return
    /\ UNCHANGED <<sinkVars, loopVars, dbVars, clock, extraction, centralisation, integrity, dispatching>>

\* A dispatch_initial task in its worker.
DispatchInitial(schema, fault) ==
    /\ pc = "tasks"
    /\ task[schema] = "queued"
    /\ schema \in initial_schemas
    /\ LET out == dispatch_initial(crm, tgt[schema], pkEnforced, fault)
       IN  /\ tgt' = [tgt EXCEPT ![schema] = out.table]
           /\ dispatching' = [dispatching EXCEPT ![schema] = out.status]
    /\ task' = [task EXCEPT ![schema] = "done"]
    /\ UNCHANGED <<sinkVars, loopVars, pkEnforced, crm, clock, pc, status, monVars, extractVars, retries,
                   initial_schemas, delta_schemas, max_dates, delta_df>>

\* A dispatch_delta task in its worker.
DispatchDelta(schema, fault) ==
    /\ pc = "tasks"
    /\ task[schema] = "queued"
    /\ schema \in delta_schemas
    /\ \E out \in dispatch_delta(delta_df, tgt[schema], pkEnforced, fault) :
          /\ tgt' = [tgt EXCEPT ![schema] = out.table]
          /\ dispatching' = [dispatching EXCEPT ![schema] = out.status]
    /\ task' = [task EXCEPT ![schema] = "done"]
    /\ UNCHANGED <<sinkVars, loopVars, pkEnforced, crm, clock, pc, status, monVars, extractVars, retries,
                   initial_schemas, delta_schemas, max_dates, delta_df>>

\* The `with ThreadPoolExecutor` block of lines 140-151 is left when every
\* task is done.
TasksFinished == \A s \in Schemas : task[s] # "queued"

\* A variant of EndCycle that reports a failed target: status ERROR when the
\* record of some target is FAILURE.
EndCycleStrict ==
    /\ pc = "tasks"
    /\ TasksFinished
    /\ status # "STOPPED"
    /\ status' = IF \E s \in Schemas : dispatching[s] = "FAILURE" THEN "ERROR" ELSE "IDLE"
    /\ Return
    /\ UNCHANGED <<sinkVars, loopVars, dbVars, clock, monVars, dispatching>>

\* run_dispatching returns: dispatch_ok, status IDLE (line 155).
EndCycle ==
    /\ pc = "tasks"
    /\ TasksFinished
    /\ status # "STOPPED"
    /\ status' = "IDLE"
    /\ Return
    /\ UNCHANGED <<sinkVars, loopVars, dbVars, clock, monVars, dispatching>>

\* handle_sigterm (lines 18-24): the signal is handled in the main thread
\* wherever it is: status STOPPED, then sys.exit.  SystemExit is not an
\* Exception, so no handler of the engine catches it; leaving a `with
\* ThreadPoolExecutor` block waits for the workers.  The extraction workers
\* still running publish their record; the dispatch tasks still queued are
\* left to run (DispatchInitial, DispatchDelta) before Exit.
HandleSigterm ==
    /\ pc # "exited"
    /\ status # "STOPPED"
    /\ status' = "STOPPED"
    /\ \E published \in [Schemas -> {"SUCCESS", "FAILURE"}] :
          extraction' = [s \in Schemas |->
                           IF future[s] = "running" THEN published[s] ELSE extraction[s]]
    /\ IF pc = "tasks" /\ ~TasksFinished
       THEN UNCHANGED <<pc, extractVars, retries, initial_schemas, delta_schemas,
                        max_dates, delta_df, task>>
       ELSE pc' = "exited" /\ ForgetLocals
    /\ UNCHANGED <<sinkVars, loopVars, dbVars, clock, alerts, centralisation, integrity, dispatching>>

\* The process exits once the tasks the signal found queued are done.
Exit ==
    /\ pc = "tasks"
    /\ TasksFinished
    /\ status = "STOPPED"
    /\ pc' = "exited"
    /\ ForgetLocals
    /\ UNCHANGED <<sinkVars, loopVars, dbVars, clock, status, monVars, dispatching>>

Next ==
    \/ StartCycle
    \/ \E s \in Schemas, raised \in BOOLEAN : run_extraction_with_retries(s, raised)
    \/ AllExtractionsFailed
    \/ ConcatResults
    \/ \E fault \in Faults : Centralize(fault)
    \/ Integrity
    \/ \E checked \in SUBSET source_dossiers(global_df) : IntegrityRaises(checked)
    \/ \E unreadable \in SUBSET Schemas : RunDispatching(unreadable)
    \/ RunDispatchingRaises
    \/ DispatchFail
    \/ \E s \in Schemas, fault \in Faults : DispatchInitial(s, fault)
    \/ \E s \in Schemas, fault \in Faults : DispatchDelta(s, fault)
    \/ EndCycle
    \/ HandleSigterm
    \/ Exit

Spec == Init /\ [][Next]_vars

\* The engine on a database whose tables carry the primary key.
InitPk == Init /\ pkEnforced = TRUE

SpecPk == InitPk /\ [][Next]_vars

\* The steps of a cycle that has started.
CycleStep ==
    \/ \E s \in Schemas, raised \in BOOLEAN : run_extraction_with_retries(s, raised)
    \/ AllExtractionsFailed
    \/ ConcatResults
    \/ \E fault \in Faults : Centralize(fault)
    \/ Integrity
    \/ \E checked \in SUBSET source_dossiers(global_df) : IntegrityRaises(checked)
    \/ \E unreadable \in SUBSET Schemas : RunDispatching(unreadable)
    \/ RunDispatchingRaises
    \/ DispatchFail
    \/ \E s \in Schemas, fault \in Faults : DispatchInitial(s, fault)
    \/ \E s \in Schemas, fault \in Faults : DispatchDelta(s, fault)
    \/ EndCycle
    \/ Exit

\* The engine observed for one cycle less, where every database call returns
\* or raises and every worker runs: a step of the cycle that can be taken is
\* taken.  The signal and the next cycle may never come.
NextShort ==
    \/ StartCycleUpTo(MaxCycles - 1)
    \/ CycleStep
    \/ HandleSigterm

SpecFair == Init /\ [][NextShort]_vars /\ WF_vars(CycleStep)

\* The engine on a database none of whose calls raises of its own: the only
\* exception left is the rejection of an INSERT by the primary key.
NextHealthy ==
    \/ StartCycle
    \/ \E s \in Schemas : run_extraction_with_retries(s, FALSE)
    \/ AllExtractionsFailed
    \/ ConcatResults
    \/ Centralize("none")
    \/ Integrity
    \/ RunDispatching({})
    \/ \E s \in Schemas : DispatchInitial(s, "none")
    \/ \E s \in Schemas : DispatchDelta(s, "none")
    \/ EndCycle

SpecHealthy == Init /\ [][NextHealthy]_vars

\* The same on a database whose tables carry the primary key.
SpecHealthyPk == InitPk /\ [][NextHealthy]_vars

\* The engine on tables without the primary key, where only the calls on the
\* target databases can raise: a target can lag behind the CRM.  The CRM
\* table holds one row more, so that a target can lack a key that the CRM
\* holds twice.
InitNoPk == Init /\ pkEnforced = FALSE

NextLagging ==
    \/ StartCycle
    \/ \E s \in Schemas : run_extraction_with_retries(s, FALSE)
    \/ AllExtractionsFailed
    \/ ConcatResults
    \/ CentralizeWithin("none", MaxRows + 1)
    \/ Integrity
    \/ \E unreadable \in SUBSET Schemas : RunDispatching(unreadable)
    \/ \E s \in Schemas, fault \in Faults : DispatchInitial(s, fault)
    \/ \E s \in Schemas, fault \in Faults : DispatchDelta(s, fault)
    \/ EndCycle

SpecLagging == InitNoPk /\ [][NextLagging]_vars

\* A row a target table held before the engine was installed: its SYNC_DATE
\* is NULL.
LegacyRow(schema) ==
    [NUM_0 |-> 1, DOSSIER_0 |-> schema, MNTGLB_0 |-> MaxAmount, MNTREG_0 |-> 0,
     SYNC_DATE |-> NullDate, ROWID |-> 0]

\* The engine on a healthy database with the primary key, where the table of
\* one target holds such a row.
InitLegacy ==
    /\ \E s \in Schemas :
          InitWith([t \in Schemas |-> IF t = s THEN {LegacyRow(s)} ELSE {}])
    /\ pkEnforced = TRUE

SpecLegacy == InitLegacy /\ [][NextHealthy]_vars

\* -------------------------------------------------------- monitoring sink
\* The orchestrator above takes every publication as one step.  Here the
\* artifact is taken at the grain of its file operations, during the
\* extraction fan-out of the first cycle: each worker calls update_monitoring
\* MaxPublish times for its own step, and the termination signal may arrive
\* in the main thread at any moment.  No function of the sink holds a lock.

engineVars ==
    <<pkEnforced, crm, tgt, clock, pc, status, alerts, extraction, centralisation,
      integrity, future, results, attempts,
      retries, initial_schemas, delta_schemas, max_dates, delta_df, task, dispatching>>

\* update_monitoring in the worker of `schema`: open(MONITORING_FILE, 'r') and
\* json.load, then the change of its own record in the local document.
WorkerLoad(schema) ==
    /\ wpc[schema] = "idle"
    /\ wrecords[schema] < MaxPublish
    /\ wdata' = [wdata EXCEPT ![schema] =
                    update_monitoring_data(file, schema, wrecords[schema] + 1)]
    /\ wpc' = [wpc EXCEPT ![schema] = "loaded"]
    /\ UNCHANGED <<engineVars, loopVars, dashboard, file, wrecords, hdata, hpc>>

\* ... open(MONITORING_FILE, 'w'): the file is truncated.
WorkerOpen(schema) ==
    /\ wpc[schema] = "loaded"
    /\ file' = EmptyFile
    /\ wpc' = [wpc EXCEPT ![schema] = "opened"]
    /\ UNCHANGED <<engineVars, loopVars, dashboard, wdata, wrecords, hdata, hpc>>

\* ... json.dump and close: the file holds the worker's document.
WorkerDump(schema) ==
    /\ wpc[schema] = "opened"
    /\ file' = wdata[schema]
    /\ wpc' = [wpc EXCEPT ![schema] = "idle"]
    /\ wrecords' = [wrecords EXCEPT ![schema] = @ + 1]
    /\ UNCHANGED <<engineVars, loopVars, dashboard, wdata, hdata, hpc>>

\* handle_sigterm in the main thread, which waits for the workers:
\* set_global_status("STOPPED") reads the artifact ...
SigtermLoad ==
    /\ hpc = "none"
    /\ hdata' = set_global_status_data(file, "STOPPED")
    /\ hpc' = "loaded"
    /\ UNCHANGED <<engineVars, loopVars, dashboard, file, wdata, wpc, wrecords>>

\* ... truncates it ...
SigtermOpen ==
    /\ hpc = "loaded"
    /\ file' = EmptyFile
    /\ hpc' = "opened"
    /\ UNCHANGED <<engineVars, loopVars, dashboard, wdata, wpc, wrecords, hdata>>

\* ... and writes it; sys.exit(0) then waits for the workers.
SigtermDump ==
    /\ hpc = "opened"
    /\ file' = hdata
    /\ hpc' = "done"
    /\ UNCHANGED <<engineVars, loopVars, dashboard, wdata, wpc, wrecords, hdata>>

\* load_monitoring_data of the dashboard, in another process, at any moment:
\* it opens the artifact and parses it; on a file that a writer has truncated
\* json.load raises and None is returned (kept here as the empty file).
load_monitoring_data ==
    /\ dashboard' = file
    /\ UNCHANGED <<engineVars, loopVars, file, wdata, wpc, wrecords, hdata, hpc>>

\* The engine in the extraction fan-out of its first cycle.
InitSink ==
    /\ pkEnforced = TRUE
    /\ crm = {}
    /\ tgt = [s \in Schemas |-> {}]
    /\ clock = 1
    /\ pc = "extract"
    /\ status = "RUNNING"
    /\ alerts = {}
    /\ extraction = [s \in Schemas |-> "IN_PROGRESS"]
    /\ centralisation = "NONE"
    /\ integrity = [s \in Schemas |-> "NONE"]
    /\ future = [s \in Schemas |-> "running"]
    /\ results = {}
    /\ attempts = [s \in Schemas |-> 0]
    /\ retries = 0
    /\ initial_schemas = {}
    /\ delta_schemas = {}
    /\ max_dates = <<>>
    /\ delta_df = {}
    /\ task = [s \in Schemas |-> "none"]
    /\ dispatching = [s \in Schemas |-> "NONE"]
    /\ SinkInit
    /\ LoopInit

NextSink ==
    \/ \E schema \in Schemas : WorkerLoad(schema)
    \/ \E schema \in Schemas : WorkerOpen(schema)
    \/ \E schema \in Schemas : WorkerDump(schema)
    \/ SigtermLoad
    \/ SigtermOpen
    \/ SigtermDump
    \/ load_monitoring_data

SpecSink == InitSink /\ [][NextSink]_vars

\* ------------------------------------------------------------ engine loop
\* The orchestrator above takes the loop of start_engine as "sleep, then the
\* next cycle".  Here the loop is taken at the grain of the seconds of its
\* sleep, with the force-run file of the dashboard; a cycle is taken by the
\* ways orchestrate_sync can end.

\* Line 166 and line 63: orchestrate_sync is called and publishes RUNNING.
OrchestrateSyncStarts ==
    /\ engine = "loop"
    /\ engine_status' = "RUNNING"
    /\ engine' = "cycle"
    /\ UNCHANGED <<engineVars, sinkVars, force_run_file, second, pending_request>>

\* orchestrate_sync returns: it has published ERROR (lines 92, 122, 151) or
\* IDLE (line 155) just before.
OrchestrateSyncReturns(result) ==
    /\ engine = "cycle"
    /\ engine_status' = result
    /\ engine' = "cleanup"
    /\ UNCHANGED <<engineVars, sinkVars, force_run_file, second, pending_request>>

\* A variant in which an exception of orchestrate_sync ends the engine.
OrchestrateSyncCrashes ==
    /\ engine = "cycle"
    /\ engine_status' = "ERROR"
    /\ engine' = "exited"
    /\ UNCHANGED <<engineVars, sinkVars, force_run_file, second, pending_request>>

\* orchestrate_sync raises an Exception: lines 167-170 publish the alert
\* CRITICAL and the status ERROR, and the loop goes on.
OrchestrateSyncRaises ==
    /\ engine = "cycle"
    /\ engine_status' = "ERROR"
    /\ engine' = "cleanup"
    /\ UNCHANGED <<engineVars, sinkVars, force_run_file, second, pending_request>>

\* A variant that leaves the force-run file where it is.
KeepForceFile ==
    /\ engine = "cleanup"
    /\ engine' = "sleep"
    /\ second' = 0
    /\ UNCHANGED <<engineVars, sinkVars, engine_status, force_run_file, pending_request>>

\* Lines 172-178: the force-run file is removed if it exists, and the sleep
\* loop starts.
RemoveForceFile ==
    /\ engine = "cleanup"
    /\ force_run_file' = FALSE
    /\ engine' = "sleep"
    /\ second' = 0
    /\ UNCHANGED <<engineVars, sinkVars, engine_status, pending_request>>

\* Lines 181-185, one turn of the sleep loop without the file: time.sleep(1).
SleepSecond ==
    /\ engine = "sleep"
    /\ second < sleep_time
    /\ ~force_run_file
    /\ second' = second + 1
    /\ UNCHANGED <<engineVars, sinkVars, engine, engine_status, force_run_file, pending_request>>

\* Lines 182-184, one turn of the sleep loop with the file: break, and the
\* while loop calls the next cycle.
ForcedRun ==
    /\ engine = "sleep"
    /\ second < sleep_time
    /\ force_run_file
    /\ engine' = "loop"
    /\ pending_request' = FALSE
    /\ UNCHANGED <<engineVars, sinkVars, engine_status, force_run_file, second>>

\* The sleep loop has made its sleep_time turns.
SleepOver ==
    /\ engine = "sleep"
    /\ second = sleep_time
    /\ engine' = "loop"
    /\ UNCHANGED <<engineVars, sinkVars, engine_status, force_run_file, second, pending_request>>

\* The dashboard, in another process: the button writes the force-run file.
\* With a status RUNNING on its screen it does not (lines 72-73); the screen
\* may be older than the artifact, so the file can appear during a cycle.
ForceSync ==
    /\ engine # "exited"
    /\ ~force_run_file
    /\ force_run_file' = TRUE
    /\ pending_request' = (pending_request \/ engine = "cycle")
    /\ UNCHANGED <<engineVars, sinkVars, engine, engine_status, second>>

\* handle_sigterm, at any moment of the loop: STOPPED, then sys.exit(0).
SigtermInLoop ==
    /\ engine # "exited"
    /\ engine_status' = "STOPPED"
    /\ engine' = "exited"
    /\ UNCHANGED <<engineVars, sinkVars, force_run_file, second, pending_request>>

\* The steps of the engine itself.
EngineStep ==
    \/ OrchestrateSyncStarts
    \/ \E result \in {"IDLE", "ERROR"} : OrchestrateSyncReturns(result)
    \/ OrchestrateSyncRaises
    \/ RemoveForceFile
    \/ SleepSecond
    \/ ForcedRun
    \/ SleepOver

NextLoop ==
    \/ EngineStep
    \/ ForceSync
    \/ SigtermInLoop

SpecLoop == InitPk /\ [][NextLoop]_vars

\* The engine is a running process: it takes its next step.
SpecLoopFair == SpecLoop /\ WF_vars(EngineStep)

\* ----------------------------------------------------------------- claims

\* The keys of the union handed to the Centralizer, and the active CRM keys.
UnionKeys == Keys(global_df)

ActiveKeys == Keys(get_active_crm_invoices(crm))

\* The row of the union under a key.
UnionRow(k) == CHOOSE r \in global_df : KeyOf(r) = k

\* A step that a Centralizer call in delta mode takes when no database call
\* raises of its own.
DeltaModeStep == Centralize("none") /\ global_df # {} /\ crm # {}

\* The rows of the next CRM table that the step inserted.
InsertedRows == {q \in crm' : \A r \in crm : ~(KeyOf(r) = KeyOf(q) /\ r.ROWID = q.ROWID)}

\* C1. Key uniqueness: the CRM table never holds two rows with the same
\* (NUM_0, DOSSIER_0).
C1_KeyUniqueness == \A r1, r2 \in crm : KeyOf(r1) = KeyOf(r2) => r1 = r2

\* C2. Monotone settlement: for every key of the CRM, no step leaves the key
\* with a MNTREG_0 lower than every MNTREG_0 the CRM held for it.
C2_MonotoneSettlement ==
    [][\A k \in Keys(crm) : \A q \in crm' :
          KeyOf(q) = k => \E r \in crm : KeyOf(r) = k /\ r.MNTREG_0 <= q.MNTREG_0]_vars

\* C3. Partial-payment trigger: in delta mode, an active CRM row whose key is
\* in the union is updated to the source's MNTREG_0 with SYNC_DATE = now when
\* the source amount is strictly greater, and is left as it is otherwise.
C3_PartialPaymentTrigger ==
    [][DeltaModeStep =>
          \A r \in get_active_crm_invoices(crm) :
             KeyOf(r) \in UnionKeys =>
                IF UnionRow(KeyOf(r)).MNTREG_0 > r.MNTREG_0
                THEN [r EXCEPT !.MNTREG_0 = UnionRow(KeyOf(r)).MNTREG_0, !.SYNC_DATE = clock] \in crm'
                ELSE r \in crm']_vars

\* C4. Disappearance implies settlement, and only disappearance does: in delta
\* mode an active CRM row whose key is absent from the union becomes
\* MNTREG_0 = MNTGLB_0 with SYNC_DATE = now, and an active row whose key is in
\* the union with a source amount below MNTGLB_0 does not.
C4_DisappearanceSettles ==
    [][DeltaModeStep =>
          \A r \in get_active_crm_invoices(crm) :
             LET settled == [r EXCEPT !.MNTREG_0 = r.MNTGLB_0, !.SYNC_DATE = clock]
             IN  IF KeyOf(r) \notin UnionKeys
                 THEN settled \in crm'
                 ELSE UnionRow(KeyOf(r)).MNTREG_0 < r.MNTGLB_0 => settled \notin crm']_vars

\* C5. New-row insertion: in delta mode the keys of the rows inserted are the
\* keys of the union that are not active CRM keys.
C5_NewRowInsertion ==
    [][DeltaModeStep => Keys(InsertedRows) = UnionKeys \ ActiveKeys]_vars

\* C6. Inactive rows never change: a settled CRM row stays as it is, and no
\* row with its key is inserted.
C6_InactiveRowsNeverChange ==
    [][\A r \in crm :
          r.MNTREG_0 = r.MNTGLB_0 =>
             /\ r \in crm'
             /\ \A q \in InsertedRows : KeyOf(q) # KeyOf(r)]_vars

\* ------------------------------------------------------ claims on dispatch

\* C7. Stage ordering within a cycle: the CRM is written only by the
\* Centralizer, and only when every extraction future is done; the Integrity
\* Checker is entered only from the Centralizer's return; the Dispatcher is
\* entered only from the Integrity Checker's return, and the targets are
\* written only by the Dispatcher's tasks.
C7_StageOrdering ==
    [][/\ crm' # crm => pc = "centralize" /\ \A s \in Schemas : future[s] = "done"
       /\ (pc' = "integrity" /\ pc # "integrity") => pc = "centralize"
       /\ (pc' = "dispatch" /\ pc # "dispatch") => pc = "integrity"
       /\ (pc' = "tasks" /\ pc # "tasks") => pc = "dispatch"
       /\ (tgt' # tgt \/ task' # task) => pc \in {"dispatch", "tasks"}]_vars

\* A cycle went through the four stages: the Centralizer wrote the CRM, and
\* the tasks of the Dispatcher wrote a target and are all done.
C7_Witness ==
    /\ pc = "tasks"
    /\ TasksFinished
    /\ \E r \in crm : r.SYNC_DATE = clock
    /\ \E s \in Schemas : \E q \in tgt[s] : q.SYNC_DATE = clock

\* C8. Watermark safety: when the tasks of a dispatch are done, a delta target
\* whose task published SUCCESS holds every CRM row whose SYNC_DATE is at
\* most the watermark W = min(MAX(SYNC_DATE)) of that dispatch.
C8_WatermarkSafety ==
    (pc = "tasks" /\ TasksFinished) =>
        \A s \in delta_schemas :
            dispatching[s] = "SUCCESS" =>
                \A r \in crm :
                    r.SYNC_DATE <= min_of_max_dates => \E q \in tgt[s] : Cols(q) = Cols(r)

\* C9. No lagging target misses updates: the first task of a target that
\* publishes SUCCESS after a FAILURE of that target leaves the target holding
\* every CRM key with the CRM's MNTREG_0.
C9_LaggingTargetCatchesUp ==
    [][\A s \in Schemas :
          (/\ task[s] = "queued" /\ task'[s] = "done"
           /\ dispatching[s] = "FAILURE" /\ dispatching'[s] = "SUCCESS")
          => \A r \in crm :
                 \E q \in tgt'[s] : KeyOf(q) = KeyOf(r) /\ q.MNTREG_0 = r.MNTREG_0]_vars

\* The rows of the key k in a table.
RowsOfKey(table, k) == {q \in table : KeyOf(q) = k}

\* C10. Global watermark: during the tasks of a dispatch with a delta target,
\* the delta is the set of the CRM rows with SYNC_DATE > W, W the smallest
\* MAX(SYNC_DATE) of the delta targets as they stand before their tasks; it
\* is set by run_dispatching only, one delta for every task; and a delta task
\* that meets no database failure publishes SUCCESS and leaves every key
\* the target already had with as many rows as before.
C10_GlobalWatermark ==
    /\ [](pc = "tasks" /\ delta_schemas # {} =>
            /\ \A s \in delta_schemas :
                   /\ tgt[s] # {}
                   /\ task[s] = "queued" => max_dates[s] = MaxSyncDate(tgt[s])
            /\ \E s \in delta_schemas :
                   /\ \A t \in delta_schemas : max_dates[s] <= max_dates[t]
                   /\ delta_df = {r \in crm : r.SYNC_DATE > max_dates[s]})
    /\ [][/\ delta_df' # delta_df => (pc = "dispatch" \/ pc' \in {"sleep", "exited"})
          /\ \A s \in Schemas :
                 DispatchDelta(s, "none") =>
                     /\ dispatching'[s] = "SUCCESS"
                     /\ \A k \in Keys(tgt[s]) :
                            Cardinality(RowsOfKey(tgt'[s], k))
                                = Cardinality(RowsOfKey(tgt[s], k))]_vars

\* A delta target whose own MAX(SYNC_DATE) is later than W was handed rows
\* it already had, and its task published SUCCESS.
C10_Witness ==
    /\ pc = "tasks"
    /\ \E s \in delta_schemas :
          /\ max_dates[s] > min_of_max_dates
          /\ task[s] = "done"
          /\ dispatching[s] = "SUCCESS"
          /\ \E r \in delta_df : r.SYNC_DATE <= max_dates[s] /\ r \in tgt[s]

\* ------------------------------------------- claims on the orchestrator

\* The columns a source view reports for the row r.
SourceCols(r) ==
    [NUM_0 |-> r.NUM_0, DOSSIER_0 |-> r.DOSSIER_0, MNTGLB_0 |-> r.MNTGLB_0,
     MNTREG_0 |-> r.MNTREG_0]

\* The second cycle is about to centralize the union the first cycle loaded:
\* the first cycle inserted its union into the empty CRM (every CRM row
\* carries its instant), every target received it by a successful initial
\* dispatch, and the sources report in the second cycle what they reported
\* in the first.
SecondRunSameSources ==
    /\ clock = 2
    /\ pc = "centralize"
    /\ crm # {}
    /\ \A r \in crm : r.SYNC_DATE = 1
    /\ centralisation = "SUCCESS"
    /\ \A s \in Schemas : tgt[s] = crm /\ dispatching[s] = "SUCCESS"
    /\ global_df = {SourceCols(r) : r \in crm}

\* C11. Dispatch idempotence, for a first cycle that is the initial load: when
\* the second cycle has the source contents of the first, which completed
\* successfully, the Centralizer of the second cycle leaves the CRM table
\* unchanged.
C11_DispatchIdempotence ==
    [][SecondRunSameSources => crm' = crm]_vars

\* C12. Extraction retry and EXTRACTION_FAIL: when the worker of a source
\* whose extraction failed is done, it has made MAX_RETRIES attempts after
\* the first one, and the alert EXTRACTION_FAIL is recorded.
C12_ExtractionRetry ==
    \A s \in Schemas :
        (future[s] = "done" /\ extraction[s] = "FAILURE") =>
            /\ attempts[s] = MAX_RETRIES + 1
            /\ "EXTRACTION_FAIL" \in alerts

\* C13. Empty results are not failures: when every extraction of the cycle
\* completed without a driver error (each published SUCCESS), whatever the
\* number of rows, the step that follows the extraction stage raises neither
\* CRITICAL_FAIL nor the partial-success WARNING and does not set status
\* ERROR.
C13_EmptyIsNotFailure ==
    [][(/\ pc = "extract"
        /\ ExtractionsFinished
        /\ \A s \in Schemas : extraction[s] = "SUCCESS")
       => /\ "CRITICAL_FAIL" \notin alerts'
          /\ "WARNING" \notin alerts'
          /\ status' # "ERROR"]_vars

\* C14. All extractions failed: while the extractions run nothing is written
\* to the CRM or to a target, and when every extraction of the cycle has
\* failed the orchestrator (unless it is stopped by a signal) raises
\* CRITICAL_FAIL, sets status ERROR and ends the cycle there: the Centralizer,
\* the Integrity Checker and the Dispatcher are not entered, the CRM and the
\* targets are as the cycle found them.
C14_AllExtractionsFailed ==
    [][pc = "extract" =>
          /\ crm' = crm /\ tgt' = tgt
          /\ (/\ ExtractionsFinished
              /\ \A s \in Schemas : extraction[s] = "FAILURE"
              /\ pc' # "exited")
             => /\ "CRITICAL_FAIL" \in alerts'
                /\ status' = "ERROR"
                /\ pc' = "sleep"]_vars

\* A cycle that found rows in the CRM and in a target ended with every
\* extraction failed.
C14_Witness ==
    /\ pc = "sleep"
    /\ status = "ERROR"
    /\ "CRITICAL_FAIL" \in alerts
    /\ \A s \in Schemas : extraction[s] = "FAILURE"
    /\ crm # {}
    /\ \E s \in Schemas : has_max_date(tgt[s])

\* C15. Centralizer failure handling: the Dispatcher is not invoked in a cycle
\* whose centralization failed; a failed attempt is retried, and when the
\* last one has failed the cycle ends with CENTRALISATION_FAIL and ERROR.  So
\* the record of centralisation/CRM_GLOBAL is not FAILURE while the
\* tasks of the Dispatcher are submitted.
C15_CentralizerFailure ==
    pc = "tasks" => centralisation # "FAILURE"

\* C16. Dispatch failure handling: a cycle in which the dispatch task of
\* every target has run and failed ends with the alert DISPATCH_FAIL and
\* status ERROR.
C16_DispatchFailure ==
    [][(/\ pc = "tasks"
        /\ \A s \in Schemas : task[s] = "done" /\ dispatching[s] = "FAILURE"
        /\ pc' = "sleep")
       => /\ "DISPATCH_FAIL" \in alerts'
          /\ status' = "ERROR"]_vars

\* The alerts raised where a cycle is aborted (sync_engine.py, lines 91, 121,
\* 150 and 169).
AbortAlerts == {"CRITICAL_FAIL", "CENTRALISATION_FAIL", "DISPATCH_FAIL", "CRITICAL"}

StatusTransitions ==
    {<<"IDLE", "RUNNING">>, <<"RUNNING", "IDLE">>, <<"RUNNING", "ERROR">>,
     <<"ERROR", "RUNNING">>}

\* C18. Engine state machine: the status the engine publishes changes only
\* along IDLE -> RUNNING, RUNNING -> IDLE, RUNNING -> ERROR, ERROR -> RUNNING
\* and any -> STOPPED; it is not RUNNING once a cycle has returned (the engine
\* sleeps or has exited); it does not change after STOPPED; and once the
\* handler has stored STOPPED in the artifact, no later write of the artifact
\* stores another status.
C18_StateMachine ==
    /\ [](pc \in {"sleep", "exited"} => status # "RUNNING")
    /\ [][/\ status' # status =>
                 (<<status, status'>> \in StatusTransitions \/ status' = "STOPPED")
          /\ status = "STOPPED" => status' = "STOPPED"
          /\ (hpc = "done" /\ "status" \in file'.keys) => file'.status = "STOPPED"]_vars

\* ------------------------------------------- claims on the monitoring sink

\* C19. Termination signal: once the signal has been handled, the artifact,
\* whenever it can be read, has the status STOPPED, also when workers were
\* publishing their step records at the time of the signal.
C19_StoppedStays ==
    (hpc = "done" /\ file.text = "json") =>
        ("status" \in file.keys /\ file.status = "STOPPED")

\* The artifact when every worker has published all its records and nothing
\* else was written since the fan-out began.
AllPublished ==
    [init_monitoring EXCEPT !.extraction = [s \in Schemas |-> MaxPublish]]

\* C20. Monitoring sink under concurrency: when the workers have all finished
\* (and no signal came), the artifact holds the last record of each worker,
\* and the status, last_run and alerts written before the fan-out.
C20_NoLostUpdate ==
    (hpc = "none" /\ \A s \in Schemas : wpc[s] = "idle" /\ wrecords[s] = MaxPublish) =>
        file = AllPublished

\* C21. Atomic artifact writes: no reader of the artifact, be it the
\* dashboard or update_monitoring in a worker, finds the file empty while a
\* writer is replacing it; what it reads is a whole document.
C21_AtomicWrites ==
    /\ [](dashboard.text = "json")
    /\ [][\A s \in Schemas :
              (wpc[s] = "idle" /\ wpc'[s] = "loaded") => file.text = "json"]_vars

\* ------------------------------------- claims on integrity and on alerts

\* C22. Integrity check is advisory: when verify_integrity has compared every
\* dossier, it has published FAILURE for exactly the dossiers whose counts
\* differ (some dossier exactly when it returns false), it has changed no
\* table, and the cycle goes on to the Dispatcher with its status unchanged;
\* the cycle ends at this stage only through an exception (alert CRITICAL),
\* never through the mismatch.
C22_IntegrityAdvisory ==
    [][pc = "integrity" =>
          /\ crm' = crm /\ tgt' = tgt
          /\ pc' = "dispatch" =>
                /\ \A s \in source_dossiers(global_df) :
                      integrity'[s] = integrity_record(global_df, crm, s)
                /\ (\E s \in source_dossiers(global_df) : integrity'[s] = "FAILURE")
                      <=> ~verify_integrity(global_df, crm)
                /\ status' = status
          /\ pc' = "sleep" => "CRITICAL" \in alerts'
          /\ pc' \in {"dispatch", "sleep", "exited", "integrity"}]_vars

\* In the first cycle a dossier's counts differed, and a task of the
\* Dispatcher has nevertheless run to its end with SUCCESS.
C22_Witness ==
    /\ clock = 1
    /\ pc = "tasks"
    /\ status = "RUNNING"
    /\ \E s \in Schemas : integrity[s] = "FAILURE"
    /\ \E s \in Schemas : task[s] = "done" /\ dispatching[s] = "SUCCESS"

\* C23. Failures are surfaced twice: when the first cycle has ended (every
\* record of the artifact is then of that cycle) and some step record is
\* FAILURE, the alerts of the artifact are not empty.
C23_FailuresSurfaced ==
    (clock = 1 /\ pc = "sleep") =>
        (  (\/ \E s \in Schemas : extraction[s] = "FAILURE"
            \/ centralisation = "FAILURE"
            \/ \E s \in Schemas : integrity[s] = "FAILURE"
            \/ \E s \in Schemas : dispatching[s] = "FAILURE")
        => alerts # {})

\* ------------------------------------------------ claims on the engine loop

\* C24. Force-run during sleep: once the force-run file is there during the
\* sleep, the engine sleeps no further second and its next step leads to the
\* next cycle, which it eventually starts (unless a signal ends the engine);
\* when a cycle is over the file is absent and the sleep starts from zero;
\* and the sleep ends early only by the file, so that one trigger gives one
\* early cycle.
C24_ForceRun ==
    /\ [][(engine = "sleep" /\ force_run_file) =>
              /\ second' = second
              /\ engine' \in {"sleep", "loop", "exited"}]_vars
    /\ [][(engine = "cleanup" /\ engine' = "sleep") =>
              (~force_run_file' /\ second' = 0)]_vars
    /\ [][(engine = "sleep" /\ engine' = "loop") =>
              (force_run_file \/ second = sleep_time)]_vars
    /\ ((engine = "sleep" /\ force_run_file) ~> (engine \in {"cycle", "exited"}))

\* A cycle runs that was started before the sleep was over, the file of its
\* trigger still being there.
C24_Witness ==
    /\ engine = "cycle"
    /\ force_run_file
    /\ 0 < second /\ second < sleep_time

\* C25. The engine survives data errors: the engine exits only on a signal
\* (its last status is then STOPPED); after a cycle that ended with ERROR, by
\* its return or by an exception, the loop removes the file, sleeps, and
\* eventually publishes RUNNING again unless a signal arrives.
C25_EngineSurvives ==
    /\ [][engine' = "exited" => engine_status' = "STOPPED"]_vars
    /\ [][(engine = "cleanup" /\ engine_status = "ERROR") =>
              engine' \in {"cleanup", "sleep", "exited"}]_vars
    /\ (engine_status = "ERROR" ~> engine_status \in {"RUNNING", "STOPPED"})

\* The engine has slept its whole interval after a cycle that ended ERROR.
C25_Witness ==
    /\ engine = "sleep"
    /\ engine_status = "ERROR"
    /\ second = sleep_time

\* ------------------------------------------------- claims on origin tagging

\* C26. Origin tagging: every row a worker adds to the extracted frames has
\* the DOSSIER_0 of the schema the worker read; a key that appears in the CRM
\* is the key of a row of the extracted frame; and every row of a target has
\* the key, hence the DOSSIER_0, of a row of the CRM.
C26_OriginTagging ==
    /\ [][\A s \in Schemas :
              (future[s] = "running" /\ future'[s] = "done") =>
                  \A r \in results' \ results : r.DOSSIER_0 = s]_vars
    /\ [][Keys(crm') \subseteq Keys(crm) \cup Keys(global_df)]_vars
    /\ [](\A s \in Schemas : Keys(tgt[s]) \subseteq Keys(crm))

\* In a second cycle the CRM and a target hold rows of both schemas.
C26_Witness ==
    /\ clock = 2
    /\ pc = "tasks"
    /\ \A d \in Schemas : \E r \in crm : r.DOSSIER_0 = d
    /\ \E s \in Schemas : \A d \in Schemas : \E r \in tgt[s] : r.DOSSIER_0 = d

\* --------------------------------------------- claims on the write batches

\* A delta task of the target s ends with SUCCESS in this step.
DeltaTaskSucceeds(s) ==
    /\ pc = "tasks"
    /\ s \in delta_schemas
    /\ task[s] = "queued" /\ task'[s] = "done"
    /\ dispatching'[s] = "SUCCESS"

\* C27. dispatch-delta is an upsert with a narrow frame: when a delta task
\* ends with SUCCESS, the target rows whose key is not in the delta are the
\* same as before; the rows of a key that was there are the rows of before
\* with the MNTREG_0 and SYNC_DATE of a delta row of that key; a key that was
\* not there has exactly one row, with the columns of a delta row; and a
\* target that had one row per key still has one row per key.
C27_DeltaUpsertFrame ==
    [][\A s \in Schemas :
          DeltaTaskSucceeds(s) =>
              /\ {q \in tgt'[s] : KeyOf(q) \notin Keys(delta_df)}
                     = {q \in tgt[s] : KeyOf(q) \notin Keys(delta_df)}
              /\ \A k \in Keys(delta_df) \cap Keys(tgt[s]) :
                     /\ Cardinality(RowsOfKey(tgt'[s], k)) = Cardinality(RowsOfKey(tgt[s], k))
                     /\ \A q2 \in RowsOfKey(tgt'[s], k) :
                            \E q \in RowsOfKey(tgt[s], k), d \in RowsOfKey(delta_df, k) :
                                q2 = [q EXCEPT !.MNTREG_0 = d.MNTREG_0,
                                               !.SYNC_DATE = d.SYNC_DATE]
              /\ \A k \in Keys(delta_df) \ Keys(tgt[s]) :
                     /\ Cardinality(RowsOfKey(tgt'[s], k)) = 1
                     /\ \A q2 \in RowsOfKey(tgt'[s], k) :
                            \E d \in delta_df : Cols(d) = Cols(q2)
              /\ (\A k \in Keys(tgt[s]) : Cardinality(RowsOfKey(tgt[s], k)) = 1)
                     => (\A k \in Keys(tgt'[s]) : Cardinality(RowsOfKey(tgt'[s], k)) = 1)]_vars

\* The physical identities of the rows of a table.
IdsOf(table) == {<<KeyOf(r), r.ROWID>> : r \in table}

\* The rows of `after` that were not in `before` under any content.
NewRows(before, after) == {q \in after : <<KeyOf(q), q.ROWID>> \notin IdsOf(before)}

\* The insert group of the Centralizer call that is about to run.
CentralizerInserts ==
    IF is_initial_load(crm)
    THEN {Stamp(r, clock) : r \in global_df}
    ELSE insert_data(global_df, get_active_crm_invoices(crm), clock)

\* What one call with its two batch groups may leave: the insert group is in
\* the table whole or not at all; when the call published FAILURE no row that
\* was there has changed and the new rows are as they were inserted; and a
\* row that was there has changed only with the whole insert group in place.
BatchGroups(before, after, inserts, published) ==
    /\ IdsOf(NewRows(before, after)) \in {{}, IdsOf(inserts)}
    /\ published = "FAILURE" =>
           (before \subseteq after /\ after \ before \subseteq inserts)
    /\ ~(before \subseteq after) => IdsOf(NewRows(before, after)) = IdsOf(inserts)

C29_BoundedRetries ==
    /\ [](\A s \in Schemas : attempts[s] <= MAX_RETRIES + 1)
    /\ [](retries + 1 <= MAX_RETRIES + 1)
    /\ [][/\ retries' > retries => (pc = "dispatch" /\ pc' = "dispatch")
          /\ ("DISPATCH_FAIL" \in alerts' /\ "DISPATCH_FAIL" \notin alerts) =>
                 retries = MAX_RETRIES
          /\ (pc # "sleep" /\ pc' = "sleep") => status' \in {"IDLE", "ERROR"}]_vars
    /\ (pc \notin {"sleep", "exited"} ~> pc \in {"sleep", "exited"})

\* A cycle has ended after the wrapper of the dispatch made all its attempts.
C29_Witness ==
    /\ pc = "sleep"
    /\ status = "ERROR"
    /\ "DISPATCH_FAIL" \in alerts

\* ----------------------------------------------- claims on failed sources

\* C30. A failed source does not settle its invoices: when the Centralizer
\* runs in a cycle in which the extraction of a schema failed and that of
\* another succeeded, every active CRM row of the failed schema is after the
\* Centralizer as it was before.
C30_FailedSourceKept ==
    [][(pc = "centralize" /\ pc' = "integrity") =>
          \A s \in Schemas :
              (/\ extraction[s] = "FAILURE"
               /\ \E t \in Schemas : extraction[t] = "SUCCESS") =>
                  \A r \in get_active_crm_invoices(crm) :
                      r.DOSSIER_0 = s => r \in crm']_vars

\* --------------------------------------------- claims on the global dispatch

\* C31. Every target is accounted for in every dispatch: when run_dispatching
\* has classified the targets, every target schema has a task, a
\* dispatch-initial task exactly when its table is empty, or a FAILURE record
\* under dispatching/{schema}.
C31_EveryTargetAccounted ==
    [][(pc = "dispatch" /\ pc' = "tasks") =>
          \A s \in Schemas :
              \/ /\ task'[s] = "queued"
                 /\ s \in initial_schemas' <=> tgt[s] = {}
                 /\ s \in delta_schemas' <=> tgt[s] # {}
              \/ dispatching'[s] = "FAILURE"]_vars

\* C32. A force-run request made while a cycle is running is not lost: when
\* the force-run file was written during a cycle, the engine does not wait a
\* full interval before a sleep is cut short for it.
C32_RequestNotLost == [][SleepOver => ~pending_request]_vars

=============================================================================
